---- MODULE Spec2Model ----
(***************************************************************************)
(* SafetyMap (safe-nav): the browser application SafetyMapApp              *)
(* (src/unnamed/part_000) and the review store it talks to                 *)
(* (src/backend/index.js).                                                 *)
(*                                                                         *)
(* Units.  A geographic coordinate is an integer number of ticks, one tick *)
(* being 1/TicksPerDeg of a degree.  Distances are whole metres.  The      *)
(* floating-point arithmetic of the source is carried out in fixed point:  *)
(* products are rounded to the nearest metre, the clamped projection       *)
(* parameter t is kept in units of 1/TScale, and a square root is rounded  *)
(* up, so that "sqrt(x) <= b" for a whole number b is decided exactly as   *)
(* on the squared distance.                                                *)
(***************************************************************************)
EXTENDS Integers, Sequences, FiniteSets, TLC

VARIABLES
    app,      \* the fields of the SafetyMapApp instance and the DOM it writes
    store,    \* backend: the rows of table reviews
    nextId,   \* backend: the next serial id of table reviews
    loadReq,  \* the GET /reviews of the constructor: sent, answered, applied
    saveResp, \* responses to POST /reviews on their way to the browser
    delResp,  \* responses to DELETE /reviews/:id on their way to the browser
    routeReqs,\* number of directionsService.route requests not yet answered
    now,      \* the wall clock, in days
    last,     \* history: the handler that ran last, and what it was given
    geo,      \* inputs and outputs of the geometry helpers (SpecGeo only)
    api       \* backend: the request handled last and its answer, and the
              \* notifications sent to the alerts service so far

vars == <<app, store, nextId, loadReq, saveResp, delResp, routeReqs, now, last, geo, api>>

(***************************************************************************)
(* Bounds of the model.                                                    *)
(***************************************************************************)
\* ticks per degree (one tick is about 11 m)
TicksPerDeg == 10000
\* resolution of the projection parameter t
TScale == 256
\* most rows table reviews ever receives (caps the serial id)
MaxReviews == 2
\* most requests of the user (POST, DELETE, route search) unanswered at once;
\* the GET /reviews of the constructor is in flight beside them
MaxInFlight == 1
\* the day the page is opened
StartDay == 8
\* most points of a polyline handed to the geometry helpers (SpecGeo)
MaxPathLen == 3
\* most reviews of a list handed to the dashboard methods (SpecDash)
MaxDashLen == 3
\* most rows the backend taken alone inserts (SpecApi)
MaxApiRows == 2

(***************************************************************************)
(* Arithmetic helpers.                                                     *)
(***************************************************************************)
Max(a, b) == IF a >= b THEN a ELSE b
Min(a, b) == IF a <= b THEN a ELSE b

\* a / b rounded to the nearest integer (b > 0)
RoundDiv(a, b) == (2 * a + b) \div (2 * b)

RECURSIVE SqrtSearch(_, _, _)
\* the least r in lo..hi with r * r >= n
SqrtSearch(n, lo, hi) ==
    IF lo >= hi THEN hi
    ELSE LET mid == (lo + hi) \div 2
         IN  IF mid * mid >= n THEN SqrtSearch(n, lo, mid)
             ELSE SqrtSearch(n, mid + 1, hi)

SqrtLimit == 16384
\* Math.sqrt, rounded up to a whole metre
Sqrt(n) == SqrtSearch(n, 0, SqrtLimit)

\* Infinity of minDistanceToPolylineMeters: larger than every distance
Infinity == 1000000000

(***************************************************************************)
(* Geometry helpers (part_000:361-398).                                    *)
(***************************************************************************)
\* toRad of (latSum / 2) ticks, in microradians
toRad(latSum) == (latSum * 87266) \div 100000

\* Math.cos of k * x microradians, in units of 1/10000 (series 1 - y^2/2)
Cos(k, x) == 10000 - ((k * x) * (k * x)) \div 200000000

\* faulty variant: the length of a degree of latitude in kilometres
mPerDegLatInKilometres(lat0) == (111133 - (560 * Cos(2, lat0)) \div 10000) \div 1000

\* metres per degree of latitude / longitude at the mid latitude of v, w
mPerDegLat(lat0) == 111133 - (560 * Cos(2, lat0)) \div 10000 + (1 * Cos(4, lat0)) \div 10000
mPerDegLng(lat0) == (111413 * Cos(1, lat0)) \div 10000 - (94 * Cos(3, lat0)) \div 10000

\* faulty variant: t is not clamped, the distance is that to the whole line
distPointToSegmentUnclamped(p, v, w) ==
    LET lat0 == toRad(v.lat + w.lat)
        vx == RoundDiv((w.lng - v.lng) * mPerDegLng(lat0), TicksPerDeg)
        vy == RoundDiv((w.lat - v.lat) * mPerDegLat(lat0), TicksPerDeg)
        px == RoundDiv((p.lng - v.lng) * mPerDegLng(lat0), TicksPerDeg)
        py == RoundDiv((p.lat - v.lat) * mPerDegLat(lat0), TicksPerDeg)
        segLen2 == vx * vx + vy * vy
    IN  IF segLen2 = 0 THEN Sqrt(px * px + py * py)
        ELSE LET num == px * vx + py * vy
                 t == (num * TScale) \div segLen2
                 dx == px - RoundDiv(vx * t, TScale)
                 dy == py - RoundDiv(vy * t, TScale)
             IN  Sqrt(dx * dx + dy * dy)

\* faulty variant: a segment of length 0 is not told apart; 0 / 0 makes the
\* result NaN, which no comparison accepts
distPointToSegmentNoDegenerateCase(p, v, w) ==
    LET lat0 == toRad(v.lat + w.lat)
        vx == RoundDiv((w.lng - v.lng) * mPerDegLng(lat0), TicksPerDeg)
        vy == RoundDiv((w.lat - v.lat) * mPerDegLat(lat0), TicksPerDeg)
        px == RoundDiv((p.lng - v.lng) * mPerDegLng(lat0), TicksPerDeg)
        py == RoundDiv((p.lat - v.lat) * mPerDegLat(lat0), TicksPerDeg)
        segLen2 == vx * vx + vy * vy
    IN  IF segLen2 = 0 THEN Infinity
        ELSE LET num == px * vx + py * vy
                 t == Max(0, Min(TScale, (num * TScale) \div segLen2))
                 dx == px - RoundDiv(vx * t, TScale)
                 dy == py - RoundDiv(vy * t, TScale)
             IN  Sqrt(dx * dx + dy * dy)

distPointToSegmentMeters(p, v, w) ==
    LET lat0 == toRad(v.lat + w.lat)
        vx == RoundDiv((w.lng - v.lng) * mPerDegLng(lat0), TicksPerDeg)
        vy == RoundDiv((w.lat - v.lat) * mPerDegLat(lat0), TicksPerDeg)
        px == RoundDiv((p.lng - v.lng) * mPerDegLng(lat0), TicksPerDeg)
        py == RoundDiv((p.lat - v.lat) * mPerDegLat(lat0), TicksPerDeg)
        segLen2 == vx * vx + vy * vy
    IN  IF segLen2 = 0 THEN Sqrt(px * px + py * py)
        ELSE LET num == px * vx + py * vy
                 \* t = max(0, min(1, num / segLen2)), in units of 1/TScale
                 t == Max(0, Min(TScale, (num * TScale) \div segLen2))
                 projx == RoundDiv(vx * t, TScale)
                 projy == RoundDiv(vy * t, TScale)
                 dx == px - projx
                 dy == py - projy
             IN  Sqrt(dx * dx + dy * dy)

RECURSIVE MinDistLoop(_, _, _, _, _)
\* the loop of minDistanceToPolylineMeters from index i with running minimum min
MinDistLoop(p, path, buffer, i, min) ==
    IF i > Len(path) - 1 THEN min
    ELSE LET d == distPointToSegmentMeters(p, path[i], path[i + 1])
             m == IF d < min THEN d ELSE min
         IN  IF m <= buffer THEN m          \* quick exit
             ELSE MinDistLoop(p, path, buffer, i + 1, m)

\* a slip: "return min" leaves the loop after the first segment, whatever min is
minDistanceFirstSegmentOnly(p, path, buffer) ==
    IF Len(path) < 2 THEN Infinity
    ELSE Min(distPointToSegmentMeters(p, path[1], path[2]), Infinity)

minDistanceToPolylineMeters(p, path, buffer) == MinDistLoop(p, path, buffer, 1, Infinity)

(***************************************************************************)
(* Values.                                                                 *)
(***************************************************************************)
Null == <<>>                 \* null: an unset field; a set one is <<value>>
Blank == <<>>                \* a dashboard tile showing "" ; "7" is <<7>>
Shown(n) == <<n>>

Point(a, b) == [lat |-> a, lng |-> b]

\* where the user may click the map to place a review, and what the two
\* sliders of the form hold when the review is submitted there
NearPt == Point(5, 50)
FarPt == Point(200, 50)
FormInputs == {[pos |-> NearPt, safetyRating |-> 4, infrastructureRating |-> 2],
               [pos |-> FarPt, safetyRating |-> 2, infrastructureRating |-> 4]}
Positions == {f.pos : f \in FormInputs}

\* overview_path of an OK answer of the routing provider
PathNone == <<>>
PathPoint == <<Point(0, 0)>>
PathA == <<Point(0, 0), Point(0, 100)>>
PathB == <<Point(0, 0), Point(0, 100), Point(200, 100)>>
RoutePaths == {PathNone, PathPoint, PathA, PathB}

\* status of a provider answer
RouteStatuses == {"OK", "ZERO_RESULTS", "NOT_FOUND"}

\* a value of a JSON request body, with its typeof: a number n, a string s, an
\* ISO-8601 string of day n ("date"), null, or a field that is missing
Num(n) == [t |-> "number", n |-> n, s |-> ""]
Str(s) == [t |-> "string", n |-> 0, s |-> s]
Iso(d) == [t |-> "date", n |-> d, s |-> "iso"]
JNull == [t |-> "null", n |-> 0, s |-> ""]
Undef == [t |-> "undefined", n |-> 0, s |-> ""]

\* typeof v
TypeOf(v) == CASE v.t = "date" -> "string"
               [] v.t = "null" -> "object"
               [] OTHER -> v.t

\* v is falsy: the left operand of "v || null" is dropped
Falsy(v) == v.t \in {"undefined", "null"} \/ (v.t = "string" /\ v.s = "")

\* the review object the backend answers and the browser keeps; address is Null
\* or <<text>>, timestamp a day
ReviewDTO(id, lat, lng, safety, infra, description, address, ts) ==
    [id |-> id, lat |-> lat, lng |-> lng,
     safetyRating |-> safety, infrastructureRating |-> infra,
     description |-> description, address |-> address, timestamp |-> ts]

\* what the description field of the review form holds when it is submitted
FormDescription == "text"

\* a review as the form of the browser makes it: described, without an address
Review(id, pos, safety, infra, ts) ==
    ReviewDTO(id, pos.lat, pos.lng, safety, infra, FormDescription, Null, ts)

\* table reviews when the page is opened: one review of a week before
SeedReview == Review(1, FarPt, 2, 4, 0)
InitialStores == {{SeedReview}}

(***************************************************************************)
(* Sequence helpers.                                                       *)
(***************************************************************************)
RECURSIVE SumSafety(_)
\* list.reduce((s, r) => s + r.safetyRating, 0)
SumSafety(list) ==
    IF list = <<>> THEN 0 ELSE Head(list).safetyRating + SumSafety(Tail(list))

RECURSIVE SumInfra(_)
\* list.reduce((s, r) => s + r.infrastructureRating, 0)
SumInfra(list) ==
    IF list = <<>> THEN 0 ELSE Head(list).infrastructureRating + SumInfra(Tail(list))

\* faulty variant: the digits after the first decimal are cut off
ToFixed1Truncates(sum, total) == (10 * sum) \div total

\* (sum / total).toFixed(1), in tenths
ToFixed1(sum, total) == RoundDiv(10 * sum, total)

\* new Date(r.timestamp) > weekAgo, weekAgo being 7 days before the clock
WeekDays == 7
IsRecent(r) == r.timestamp > now - WeekDays

\* list.filter(r => new Date(r.timestamp) > weekAgo).length
RecentCount(list) == Len(SelectSeq(list, IsRecent))

\* the elements of a sequence
Range(s) == {s[i] : i \in 1..Len(s)}

(***************************************************************************)
(* The application object.  Every helper takes the object and returns it   *)
(* as the method leaves it.  mode, filterRuns, dashWrites, countResult and *)
(* notice are history fields: the dashboard method that wrote the tiles    *)
(* last, the calls of countReviewsAlongRoute and of updateDashboard* made  *)
(* by the running handler, the value the last countReviewsAlongRoute       *)
(* returned, and the type of the notification the handler showed.          *)
(* noticeText is the part of the notification's message that is not fixed  *)
(* text: the status of a failed route search.  routeCleared is a history   *)
(* field too: clearRoute has run, and since then findRoute was not invoked *)
(* and no route was installed.                                             *)
(***************************************************************************)
routeBufferMeters == 1000

\* start of a handler: the history fields of the previous handler are dropped
Begin(a) == [a EXCEPT !.filterRuns = 0, !.dashWrites = 0, !.countResult = Null,
                      !.notice = "none", !.noticeText = Null]

showNotification(a, type) == [a EXCEPT !.notice = type]

\* the four setStat calls of a dashboard method
SetStats(a, total, avgSafety, avgInfra, recent, mode) ==
    [a EXCEPT !.stats = [totalReviews |-> total, avgSafety |-> avgSafety,
                         avgInfra |-> avgInfra, recentReviews |-> recent],
              !.mode = mode,
              !.dashWrites = @ + 1]

\* faulty variant: the count and the recent count of no reviews are shown as "0"
updateDashboardOverallShowsZero(a) ==
    LET total == Len(a.reviews)
    IN  IF total = 0
        THEN SetStats(a, Shown(0), Blank, Blank, Shown(0), "Overall")
        ELSE SetStats(a, Shown(total),
                      Shown(ToFixed1(SumSafety(a.reviews), total)),
                      Shown(ToFixed1(SumInfra(a.reviews), total)),
                      Shown(RecentCount(a.reviews)), "Overall")

updateDashboardOverall(a) ==
    LET total == Len(a.reviews)
    IN  IF total = 0
        THEN SetStats(a, Blank, Blank, Blank, Blank, "Overall")
        ELSE SetStats(a, Shown(total),
                      Shown(ToFixed1(SumSafety(a.reviews), total)),
                      Shown(ToFixed1(SumInfra(a.reviews), total)),
                      Shown(RecentCount(a.reviews)), "Overall")

updateDashboardEmpty(a) == SetStats(a, Blank, Blank, Blank, Blank, "Empty")

updateDashboardRouteOnly(a) ==
    IF Len(a.routeFiltered) = 0
    THEN [updateDashboardEmpty(a) EXCEPT !.badge = 0]
    ELSE LET list == a.routeFiltered
             total == Len(list)
         IN  SetStats(a, Shown(total),
                      Shown(ToFixed1(SumSafety(list), total)),
                      Shown(ToFixed1(SumInfra(list), total)),
                      Shown(RecentCount(list)), "RouteOnly")

\* the test of the loop of countReviewsAlongRoute
OnRoute(r, path, buffer) ==
    minDistanceToPolylineMeters(Point(r.lat, r.lng), path, buffer) <= buffer

\* the halos of the on-route reviews: one circle centred on each
Halos(list) == [i \in 1..Len(list) |-> Point(list[i].lat, list[i].lng)]

\* faulty variant: the cache is reset after the early return, not before it
countReviewsAlongRouteKeepsCache(a) ==
    IF Len(a.routePath) < 2
    THEN [a EXCEPT !.countResult = Shown(0), !.filterRuns = @ + 1]
    ELSE LET Test(r) == OnRoute(r, a.routePath, routeBufferMeters)
             filtered == SelectSeq(a.reviews, Test)
         IN  [a EXCEPT !.routeFiltered = filtered,
                       !.routeOverlays = Halos(filtered),
                       !.countResult = Shown(Len(filtered)),
                       !.filterRuns = @ + 1]

countReviewsAlongRoute(a) ==
    IF Len(a.routePath) < 2
    THEN [a EXCEPT !.routeFiltered = <<>>, !.countResult = Shown(0),
                   !.filterRuns = @ + 1]
    ELSE LET Test(r) == OnRoute(r, a.routePath, routeBufferMeters)
             filtered == SelectSeq(a.reviews, Test)
         IN  [a EXCEPT !.routeFiltered = filtered,
                       !.routeOverlays = Halos(filtered),
                       !.countResult = Shown(Len(filtered)),
                       !.filterRuns = @ + 1]

\* "if (this.routeActive && this.routePath.length) {...} else {...}"
RefreshDashboard(a) ==
    IF a.routeActive /\ Len(a.routePath) # 0
    THEN updateDashboardRouteOnly(countReviewsAlongRoute(a))
    ELSE updateDashboardOverall(a)

\* reviewMarkers holds one marker per review drawn; the order of the array is
\* never read, so the markers are kept as the set of the reviews they stand for
loadMarkers(a) == [a EXCEPT !.reviewMarkers = Range(a.reviews)]
addReviewMarker(a, r) == [a EXCEPT !.reviewMarkers = @ \cup {r}]
closeReviewModal(a) == [a EXCEPT !.selectedLocation = Null]
closeViewModal(a) == [a EXCEPT !.currentReviewId = Null]

(***************************************************************************)
(* The backend (src/backend/index.js).                                     *)
(***************************************************************************)
\* GET /reviews: the rows ORDER BY timestamp DESC, rows of one timestamp in any order
SortedRows(rows) ==
    {s \in [1..Cardinality(rows) -> rows] :
        /\ \A i, j \in 1..Cardinality(rows) : i # j => s[i] # s[j]
        /\ \A i, j \in 1..Cardinality(rows) : i < j => s[i].timestamp >= s[j].timestamp}

\* faulty variant: the payload is tested without its description
ValidBodySkipsDescription(body) ==
    /\ TypeOf(body.lat) = "number" /\ TypeOf(body.lng) = "number"
    /\ TypeOf(body.safetyRating) = "number"
    /\ TypeOf(body.infrastructureRating) = "number"

\* POST /reviews: the test of the payload that answers 400 when it fails
ValidBody(body) ==
    /\ TypeOf(body.lat) = "number" /\ TypeOf(body.lng) = "number"
    /\ TypeOf(body.safetyRating) = "number"
    /\ TypeOf(body.infrastructureRating) = "number"
    /\ TypeOf(body.description) = "string"

\* POST /reviews: the row INSERT ... RETURNING gives for a payload, as toReviewDTO
\* shapes it: "address || null", and COALESCE(timestamp || null, now())
InsertedRow(id, body) ==
    ReviewDTO(id, body.lat.n, body.lng.n, body.safetyRating.n,
              body.infrastructureRating.n, body.description.s,
              IF Falsy(body.address) THEN Null ELSE <<body.address.s>>,
              IF Falsy(body.timestamp) THEN now ELSE body.timestamp.n)

\* what becomes of the POST to the alerts service
AlertOutcomes == {"delivered", "rejected", "threw", "pending"}

\* faulty variant: the notification is awaited and its failure is let through
notifyAlertsServiceAwaited(outcome) ==
    CASE outcome = "delivered" -> "returned"
      [] outcome = "pending" -> "blocked"
      [] OTHER -> "raised"

\* notifyAlertsService as its caller sees it: the call returns at once, a
\* synchronous throw is caught and a rejection is left to .catch
notifyAlertsService(outcome) ==
    CASE outcome = "threw" -> "returned"
      [] outcome = "rejected" -> "returned"
      [] OTHER -> "returned"

\* POST /reviews with the database answering (dbOk) or failing: the status, the
\* review answered, the rows and the serial id afterwards, and whether the
\* alerts service was called.  Status 0: no answer is ever sent.
PostReviews(rows, id, body, dbOk, outcome) ==
    LET kept == [status |-> 400, saved |-> Null, rows |-> rows, nextId |-> id,
                 notified |-> FALSE]
    IN  IF ~ValidBody(body) THEN kept
        ELSE IF ~dbOk THEN [kept EXCEPT !.status = 500]
        ELSE LET saved == InsertedRow(id, body)
                 done == [status |-> 201, saved |-> <<saved>>,
                          rows |-> rows \cup {saved}, nextId |-> id + 1,
                          notified |-> TRUE]
                 call == notifyAlertsService(outcome)
             IN  CASE call = "returned" -> done
                   [] call = "raised" -> [done EXCEPT !.status = 500, !.saved = Null]
                   [] OTHER -> [done EXCEPT !.status = 0, !.saved = Null]

\* faulty variant: rowCount is not looked at
DeleteStatusAlways204(rows, id) == 204

\* DELETE /reviews/:id: the rows left, and the status answered
RowsAfterDelete(rows, id) == {r \in rows : r.id # id}
DeleteStatus(rows, id) == IF \E r \in rows : r.id = id THEN 204 ELSE 404

(***************************************************************************)
(* History: the handler of the browser that ran last, whether it went      *)
(* through, and the review id or the route path it was about; for an        *)
(* answer of the routing provider, its status.                             *)
(***************************************************************************)
Last(op, ok, id, path) == [op |-> op, ok |-> ok, id |-> id, path |-> path, status |-> ""]

(***************************************************************************)
(* Initial state: new SafetyMapApp() followed by app.initMap(), as the     *)
(* Google Maps callback initMap runs them in one turn of the event loop.   *)
(* GET /reviews of the constructor has been sent and not been answered.    *)
(***************************************************************************)
InitApp ==
    [reviews |-> <<>>, reviewMarkers |-> {},
     selectedLocation |-> Null, currentReviewId |-> Null,
     map |-> TRUE,
     routePath |-> <<>>, routeActive |-> FALSE,
     routeFiltered |-> <<>>, routeOverlays |-> <<>>, badge |-> 0,
     stats |-> [totalReviews |-> Blank, avgSafety |-> Blank,
                avgInfra |-> Blank, recentReviews |-> Blank],
     mode |-> "Overall",
     filterRuns |-> 0, dashWrites |-> 0, countResult |-> Null, notice |-> "none",
     noticeText |-> Null, routeCleared |-> FALSE]

NoGeo == [p |-> Point(0, 0), path |-> <<>>, buffer |-> 0, done |-> FALSE, result |-> 0,
          segDone |-> FALSE, segResult |-> 0]

\* the backend before its first request
NoApi == [op |-> "none", status |-> 0, body |-> Undef, id |-> 0, dbOk |-> TRUE,
          outcome |-> "none", saved |-> Null, rows |-> <<>>, before |-> {},
          alerts |-> 0, gone |-> {}]

Init ==
    /\ app = InitApp
    /\ store \in InitialStores
    /\ nextId = Cardinality(store) + 1
    /\ loadReq = [phase |-> "sent", ok |-> FALSE, rows |-> <<>>]
    /\ saveResp = {}
    /\ delResp = {}
    /\ routeReqs = 0
    /\ now = StartDay
    /\ last = Last("init", TRUE, 0, <<>>)
    /\ geo = NoGeo
    /\ api = NoApi

(***************************************************************************)
(* loadReviews (part_000:38-63).                                           *)
(***************************************************************************)
\* the backend answers GET /reviews: 200 with the rows, or the request fails
GetReviews ==
    /\ loadReq.phase = "sent"
    /\ \E ok \in BOOLEAN :
         IF ok
         THEN \E rows \in SortedRows(store) :
                 loadReq' = [phase |-> "answered", ok |-> TRUE, rows |-> rows]
         ELSE loadReq' = [phase |-> "answered", ok |-> FALSE, rows |-> <<>>]
    /\ UNCHANGED <<app, store, nextId, saveResp, delResp, routeReqs, now, last, geo, api>>

\* the try block of loadReviews after the awaits
LoadOk(a, rows) ==
    LET a1 == updateDashboardOverall([a EXCEPT !.reviews = rows])
        a2 == IF a1.map THEN loadMarkers(a1) ELSE a1
    IN  IF a2.map /\ a2.routeActive /\ Len(a2.routePath) # 0
        THEN updateDashboardRouteOnly(countReviewsAlongRoute(a2))
        ELSE a2

\* the catch block of loadReviews
LoadFailed(a) ==
    showNotification(updateDashboardOverall([a EXCEPT !.reviews = <<>>]), "error")

LoadReviewsDone ==
    /\ loadReq.phase = "answered"
    /\ app' = IF loadReq.ok THEN LoadOk(Begin(app), loadReq.rows)
              ELSE LoadFailed(Begin(app))
    /\ loadReq' = [phase |-> "applied", ok |-> loadReq.ok, rows |-> <<>>]
    /\ last' = Last("loadReviews", loadReq.ok, 0, <<>>)
    /\ UNCHANGED <<store, nextId, saveResp, delResp, routeReqs, now, geo, api>>

(***************************************************************************)
(* The review form and saveReview (part_000:65-112, 570-592).              *)
(***************************************************************************)
OpenReviewModal ==
    /\ app.map
    /\ \E pos \in Positions :
         app' = [Begin(app) EXCEPT !.selectedLocation = <<pos>>]
    /\ last' = Last("openReviewModal", TRUE, 0, <<>>)
    /\ UNCHANGED <<store, nextId, loadReq, saveResp, delResp, routeReqs, now, geo, api>>

CloseReviewModal ==
    /\ app.selectedLocation # Null
    /\ app' = closeReviewModal(Begin(app))
    /\ last' = Last("closeReviewModal", TRUE, 0, <<>>)
    /\ UNCHANGED <<store, nextId, loadReq, saveResp, delResp, routeReqs, now, geo, api>>

\* the object saveReview posts, as JSON.stringify sends it
FormReview(a, form) ==
    [lat |-> Num(a.selectedLocation[1].lat), lng |-> Num(a.selectedLocation[1].lng),
     safetyRating |-> Num(form.safetyRating),
     infrastructureRating |-> Num(form.infrastructureRating),
     description |-> Str(FormDescription), address |-> Str(""),
     timestamp |-> Iso(now)]

\* the requests of the user that are not answered yet
InFlight == Cardinality(saveResp) + Cardinality(delResp) + routeReqs

\* saveReview up to the await, and the backend's handling of the POST:
\* 201 with the inserted row, or 500 with nothing inserted
SaveReviewSubmit ==
    /\ app.selectedLocation # Null
    /\ InFlight < MaxInFlight
    /\ \E form \in {f \in FormInputs : f.pos = app.selectedLocation[1]},
          dbOk \in BOOLEAN, outcome \in AlertOutcomes :
         LET res == PostReviews(store, nextId, FormReview(app, form), dbOk, outcome)
         IN  /\ res.nextId <= MaxReviews + 1
             /\ store' = res.rows
             /\ nextId' = res.nextId
             /\ saveResp' = saveResp \cup {[ok |-> res.status = 201, saved |-> res.saved]}
             /\ api' = IF res.notified THEN [api EXCEPT !.alerts = @ + 1] ELSE api
    /\ UNCHANGED <<app, loadReq, delResp, routeReqs, now, last, geo>>

\* faulty variant: the dashboard is rewritten from the cache of the last filter run
SaveOkNoRefilter(a, saved) ==
    LET a1 == [a EXCEPT !.reviews = <<saved>> \o @]
        a2 == IF a1.map THEN addReviewMarker(a1, saved) ELSE a1
        a3 == IF a2.routeActive /\ Len(a2.routePath) # 0
              THEN updateDashboardRouteOnly(a2)
              ELSE updateDashboardOverall(a2)
    IN  showNotification(closeReviewModal(a3), "success")

\* the try block of saveReview after the awaits
SaveOk(a, saved) ==
    LET a1 == [a EXCEPT !.reviews = <<saved>> \o @]
        a2 == IF a1.map THEN addReviewMarker(a1, saved) ELSE a1
        a3 == RefreshDashboard(a2)
    IN  showNotification(closeReviewModal(a3), "success")

SaveFailed(a) == showNotification(a, "error")

SaveReviewDone ==
    /\ \E resp \in saveResp :
         /\ saveResp' = saveResp \ {resp}
         /\ app' = IF resp.ok THEN SaveOk(Begin(app), resp.saved[1])
                   ELSE SaveFailed(Begin(app))
         /\ last' = Last("saveReview", resp.ok,
                         IF resp.ok THEN resp.saved[1].id ELSE 0, <<>>)
    /\ UNCHANGED <<store, nextId, loadReq, delResp, routeReqs, now, geo, api>>

(***************************************************************************)
(* The view modal and deleteReview (part_000:114-142, 626-663).            *)
(***************************************************************************)
\* a click on a review's marker, or on its entry of the recent list
ShowReviewDetails ==
    /\ \E r \in app.reviewMarkers \cup Range(app.reviews) :
         /\ app' = [Begin(app) EXCEPT !.currentReviewId = <<r.id>>]
         /\ last' = Last("showReviewDetails", TRUE, r.id, <<>>)
    /\ UNCHANGED <<store, nextId, loadReq, saveResp, delResp, routeReqs, now, geo, api>>

CloseViewModal ==
    /\ app.currentReviewId # Null
    /\ app' = closeViewModal(Begin(app))
    /\ last' = Last("closeViewModal", TRUE, 0, <<>>)
    /\ UNCHANGED <<store, nextId, loadReq, saveResp, delResp, routeReqs, now, geo, api>>

\* deleteReview up to the await, and the backend's handling of the DELETE:
\* 204 with the row removed, 404 for an unknown id, or 500 with nothing removed
DeleteReviewSubmit ==
    /\ app.currentReviewId # Null
    /\ InFlight < MaxInFlight
    /\ \E ok \in BOOLEAN :
         LET id == app.currentReviewId[1]
         IN  IF ok
             THEN /\ store' = RowsAfterDelete(store, id)
                  /\ delResp' = delResp \cup {[status |-> DeleteStatus(store, id), id |-> id]}
             ELSE /\ store' = store
                  /\ delResp' = delResp \cup {[status |-> 500, id |-> id]}
    /\ UNCHANGED <<app, nextId, loadReq, saveResp, routeReqs, now, last, geo, api>>

\* this.reviews.filter(r => String(r.id) !== String(this.currentReviewId))
WithoutCurrent(a) ==
    LET Keep(r) == a.currentReviewId = Null \/ r.id # a.currentReviewId[1]
    IN  SelectSeq(a.reviews, Keep)

\* the try block of deleteReview after the await, for status 204
DeleteOk(a) ==
    LET a1 == loadMarkers([a EXCEPT !.reviews = WithoutCurrent(a)])
        a2 == closeViewModal(a1)
        a3 == RefreshDashboard(a2)
    IN  showNotification(a3, "info")

\* faulty variant: the review is dropped from the list before the status is read
DeleteFailedStillRemoves(a) ==
    showNotification(RefreshDashboard(loadMarkers([a EXCEPT !.reviews = WithoutCurrent(a)])),
                     "error")

DeleteFailed(a) == showNotification(a, "error")

DeleteReviewDone ==
    /\ \E resp \in delResp :
         /\ delResp' = delResp \ {resp}
         /\ app' = IF resp.status = 204 THEN DeleteOk(Begin(app))
                   ELSE DeleteFailed(Begin(app))
         /\ last' = Last("deleteReview", resp.status = 204, resp.id, <<>>)
    /\ UNCHANGED <<store, nextId, loadReq, saveResp, routeReqs, now, geo, api>>

(***************************************************************************)
(* Route actions (part_000:281-326).                                       *)
(***************************************************************************)
\* faulty variant: the cache of the on-route reviews is left as it is
clearRouteKeepsCache(a) ==
    updateDashboardOverall(
        [a EXCEPT !.routePath = <<>>, !.routeActive = FALSE, !.badge = 0,
                  !.routeOverlays = <<>>])

\* faulty variant: the halos are left on the map
clearRouteKeepsHalos(a) ==
    updateDashboardOverall(
        [a EXCEPT !.routePath = <<>>, !.routeActive = FALSE, !.routeFiltered = <<>>,
                  !.badge = 0])

clearRoute(a) ==
    updateDashboardOverall(
        [a EXCEPT !.routePath = <<>>, !.routeActive = FALSE, !.routeFiltered = <<>>,
                  !.badge = 0, !.routeOverlays = <<>>])

\* findRoute with both fields filled: the request goes to the provider
FindRoute ==
    /\ app.map
    /\ InFlight < MaxInFlight
    /\ routeReqs' = routeReqs + 1
    /\ app' = [Begin(app) EXCEPT !.routeCleared = FALSE]
    /\ last' = Last("findRoute", TRUE, 0, <<>>)
    /\ UNCHANGED <<store, nextId, loadReq, saveResp, delResp, now, geo, api>>

\* faulty variant: the new path is installed and the filter is not run on it
RouteOkStaleFilter(a, path) ==
    LET a1 == [a EXCEPT !.routePath = path, !.routeActive = TRUE]
        a3 == [a1 EXCEPT !.badge = Len(a1.routeFiltered)]
    IN  updateDashboardRouteOnly(a3)

\* the callback of directionsService.route for status OK
RouteOk(a, path) ==
    LET a1 == [a EXCEPT !.routePath = path, !.routeActive = TRUE]
        a2 == countReviewsAlongRoute(a1)
        a3 == [a2 EXCEPT !.badge = a2.countResult[1]]
    IN  updateDashboardRouteOnly(a3)

\* faulty variant: a failed search drops the route that was shown
RouteFailedDropsRoute(a, status) ==
    [showNotification(clearRoute(a), "error") EXCEPT !.noticeText = <<status>>]

\* the callback for any other status: `Route failed: ${status}`
RouteFailed(a, status) ==
    [showNotification(a, "error") EXCEPT !.noticeText = <<status>>]

RouteAnswer ==
    /\ routeReqs > 0
    /\ routeReqs' = routeReqs - 1
    /\ \E status \in RouteStatuses, path \in RoutePaths :
         /\ app' = IF status = "OK"
                   THEN [RouteOk(Begin(app), path) EXCEPT !.routeCleared = FALSE]
                   ELSE RouteFailed(Begin(app), status)
         /\ last' = [Last("routeAnswer", status = "OK", 0,
                          IF status = "OK" THEN path ELSE <<>>) EXCEPT !.status = status]
    /\ UNCHANGED <<store, nextId, loadReq, saveResp, delResp, now, geo, api>>

ClearRoute ==
    /\ app.map
    /\ app' = [clearRoute(Begin(app)) EXCEPT !.routeCleared = TRUE]
    /\ last' = Last("clearRoute", TRUE, 0, <<>>)
    /\ UNCHANGED <<store, nextId, loadReq, saveResp, delResp, routeReqs, now, geo, api>>

(***************************************************************************)
(* Display filters (part_000:700-759).                                     *)
(***************************************************************************)
\* values of the two sliders and of the time select
FilterInputs == {[safetyMin |-> 1, infraMin |-> 1, timeFilter |-> "all"],
                 [safetyMin |-> 3, infraMin |-> 1, timeFilter |-> "week"]}

applyFilters(a, safetyMin, infraMin, timeFilter) ==
    LET Rated(r) == r.safetyRating >= safetyMin /\ r.infrastructureRating >= infraMin
        byRating == SelectSeq(a.reviews, Rated)
        filtered == IF timeFilter # "all" THEN SelectSeq(byRating, IsRecent) ELSE byRating
        a1 == showNotification([a EXCEPT !.reviewMarkers = Range(filtered)], "info")
    IN  RefreshDashboard(a1)

ApplyFilters ==
    /\ app.map
    /\ \E f \in FilterInputs :
         app' = applyFilters(Begin(app), f.safetyMin, f.infraMin, f.timeFilter)
    /\ last' = Last("applyFilters", TRUE, 0, <<>>)
    /\ UNCHANGED <<store, nextId, loadReq, saveResp, delResp, routeReqs, now, geo, api>>

resetFilters(a) == RefreshDashboard(showNotification(loadMarkers(a), "info"))

ResetFilters ==
    /\ app.map
    /\ app' = resetFilters(Begin(app))
    /\ last' = Last("resetFilters", TRUE, 0, <<>>)
    /\ UNCHANGED <<store, nextId, loadReq, saveResp, delResp, routeReqs, now, geo, api>>

Next ==
    \/ GetReviews
    \/ LoadReviewsDone
    \/ OpenReviewModal
    \/ CloseReviewModal
    \/ SaveReviewSubmit
    \/ SaveReviewDone
    \/ ShowReviewDetails
    \/ CloseViewModal
    \/ DeleteReviewSubmit
    \/ DeleteReviewDone
    \/ FindRoute
    \/ RouteAnswer
    \/ ClearRoute
    \/ ApplyFilters
    \/ ResetFilters

Spec == Init /\ [][Next]_vars

(***************************************************************************)
(* The geometry helpers on their own: a point, a polyline and a buffer are *)
(* drawn from bounded sets and minDistanceToPolylineMeters is applied.     *)
(***************************************************************************)
GeoPoints == {Point(a, b) : a \in {0, 5, 90, 91, 200}, b \in {0 - 50, 50, 100, 150}}
GeoVertices == {Point(0, 0), Point(0, 100), Point(200, 100), Point(200, 0)}
GeoPaths == UNION {[1..n -> GeoVertices] : n \in 0..MaxPathLen}
GeoBuffers == {55, 557, routeBufferMeters}

InitGeo ==
    /\ geo \in [p : GeoPoints, path : GeoPaths, buffer : GeoBuffers,
                done : {FALSE}, result : {0}, segDone : {FALSE}, segResult : {0}]
    /\ app = InitApp
    /\ store = {}
    /\ nextId = 1
    /\ loadReq = [phase |-> "sent", ok |-> FALSE, rows |-> <<>>]
    /\ saveResp = {}
    /\ delResp = {}
    /\ routeReqs = 0
    /\ now = StartDay
    /\ last = Last("init", TRUE, 0, <<>>)
    /\ api = NoApi

GeoMinDistance ==
    /\ ~geo.done
    /\ geo' = [geo EXCEPT !.done = TRUE,
                          !.result = minDistanceToPolylineMeters(geo.p, geo.path, geo.buffer)]
    /\ UNCHANGED <<app, store, nextId, loadReq, saveResp, delResp, routeReqs, now, last, api>>

\* distPointToSegmentMeters applied to the point and the first segment of the path
GeoSegDistance ==
    /\ ~geo.segDone
    /\ Len(geo.path) >= 2
    /\ geo' = [geo EXCEPT !.segDone = TRUE,
                          !.segResult = distPointToSegmentMeters(geo.p, geo.path[1],
                                                                 geo.path[2])]
    /\ UNCHANGED <<app, store, nextId, loadReq, saveResp, delResp, routeReqs, now, last, api>>

NextGeo == GeoMinDistance \/ GeoSegDistance

SpecGeo == InitGeo /\ [][NextGeo]_vars

(***************************************************************************)
(* The backend on its own: requests with arbitrary payloads and            *)
(* identifiers arrive one after the other; the database answers or fails.  *)
(***************************************************************************)
\* a payload the form of the browser could have sent
BaseBody == [lat |-> Num(5), lng |-> Num(50), safetyRating |-> Num(4),
             infrastructureRating |-> Num(2), description |-> Str("text"),
             address |-> Str("addr"), timestamp |-> Iso(StartDay - 1)]

\* payloads that pass the typeof test: without address and timestamp, with an
\* empty address, and with ratings out of range and an empty description
PassingBodies ==
    {BaseBody,
     [BaseBody EXCEPT !.address = Undef, !.timestamp = Undef],
     [BaseBody EXCEPT !.address = Str(""), !.timestamp = Str("")],
     [BaseBody EXCEPT !.safetyRating = Num(9), !.infrastructureRating = Num(0),
                      !.description = Str("")]}

\* payloads with one field of the wrong type, null or missing; and no body
FailingBodies ==
    {[BaseBody EXCEPT ![f] = v] :
        f \in {"lat", "lng", "safetyRating", "infrastructureRating"},
        v \in {Str("5"), Undef}}
    \cup {[BaseBody EXCEPT !.description = v] : v \in {Num(1), JNull, Undef}}
    \cup {[f \in DOMAIN BaseBody |-> Undef]}

ApiBodies == PassingBodies \cup FailingBodies

InitApi ==
    /\ store = {}
    /\ nextId = 1
    /\ api = NoApi
    /\ app = InitApp
    /\ loadReq = [phase |-> "sent", ok |-> FALSE, rows |-> <<>>]
    /\ saveResp = {}
    /\ delResp = {}
    /\ routeReqs = 0
    /\ now = StartDay
    /\ last = Last("init", TRUE, 0, <<>>)
    /\ geo = NoGeo

\* app.post("/reviews")
ApiPostReviews ==
    /\ \E body \in ApiBodies, dbOk \in BOOLEAN, outcome \in AlertOutcomes :
         LET res == PostReviews(store, nextId, body, dbOk, outcome)
         IN  /\ res.nextId <= MaxApiRows + 1
             /\ store' = res.rows
             /\ nextId' = res.nextId
             /\ api' = [api EXCEPT !.op = "POST", !.status = res.status, !.body = body,
                                   !.id = 0, !.dbOk = dbOk,
                                   !.outcome = IF res.notified THEN outcome ELSE "none",
                                   !.saved = res.saved, !.rows = <<>>, !.before = store,
                                   !.alerts = IF res.notified THEN @ + 1 ELSE @]
    /\ UNCHANGED <<app, loadReq, saveResp, delResp, routeReqs, now, last, geo>>

\* app.delete("/reviews/:id")
ApiDeleteReview ==
    /\ \E id \in 1..(MaxApiRows + 1), dbOk \in BOOLEAN :
         LET status == IF dbOk THEN DeleteStatus(store, id) ELSE 500
         IN  /\ store' = IF dbOk THEN RowsAfterDelete(store, id) ELSE store
             /\ api' = [api EXCEPT !.op = "DELETE", !.status = status, !.body = Undef,
                                   !.id = id, !.dbOk = dbOk, !.outcome = "none",
                                   !.saved = Null, !.rows = <<>>, !.before = store,
                                   !.gone = IF status = 204 THEN @ \cup {id} ELSE @]
    /\ UNCHANGED <<app, nextId, loadReq, saveResp, delResp, routeReqs, now, last, geo>>

\* app.get("/reviews")
ApiGetReviews ==
    /\ \E dbOk \in BOOLEAN :
         \E rows \in (IF dbOk THEN SortedRows(store) ELSE {<<>>}) :
            api' = [api EXCEPT !.op = "GET", !.status = IF dbOk THEN 200 ELSE 500,
                               !.body = Undef, !.id = 0, !.dbOk = dbOk,
                               !.outcome = "none", !.saved = Null, !.rows = rows,
                               !.before = store]
    /\ UNCHANGED <<app, store, nextId, loadReq, saveResp, delResp, routeReqs, now,
                   last, geo>>

NextApi == ApiPostReviews \/ ApiDeleteReview \/ ApiGetReviews

SpecApi == InitApi /\ [][NextApi]_vars

(***************************************************************************)
(* The dashboard methods on their own: a review list, the cache of a route *)
(* (a sub-list of it) and an evaluation time are drawn from bounded sets   *)
(* and updateDashboardOverall or updateDashboardRouteOnly is applied.      *)
(***************************************************************************)
\* reviews of different ratings and ages: of yesterday, of exactly a week ago,
\* of six and of eight days ago, of today, and one dated tomorrow
DashReviews == {Review(1, NearPt, 4, 2, StartDay - 1),
                Review(2, FarPt, 2, 4, StartDay - WeekDays),
                Review(3, NearPt, 5, 5, StartDay - 6),
                Review(4, FarPt, 1, 2, StartDay - 8),
                Review(5, NearPt, 3, 3, StartDay),
                Review(6, FarPt, 5, 1, StartDay + 1)}

\* the lists of at most n different elements of a set
ListsOf(S, n) ==
    UNION {{l \in [1..k -> S] : \A i, j \in 1..k : i # j => l[i] # l[j]} : k \in 0..n}

\* the sub-lists of a list, in its order
SubLists(list) ==
    {LET In(r) == r.id \in ids IN SelectSeq(list, In) :
        ids \in SUBSET {r.id : r \in Range(list)}}

InitDash ==
    /\ \E list \in ListsOf(DashReviews, MaxDashLen), active \in BOOLEAN :
         \E cache \in (IF active THEN SubLists(list) ELSE {<<>>}) :
            app = [InitApp EXCEPT !.reviews = list, !.reviewMarkers = Range(list),
                                  !.routeActive = active,
                                  !.routePath = IF active THEN PathB ELSE <<>>,
                                  !.routeFiltered = cache,
                                  !.routeOverlays = Halos(cache)]
    /\ now \in {StartDay, StartDay + 1}
    /\ store = {}
    /\ nextId = 1
    /\ loadReq = [phase |-> "applied", ok |-> TRUE, rows |-> <<>>]
    /\ saveResp = {}
    /\ delResp = {}
    /\ routeReqs = 0
    /\ last = Last("init", TRUE, 0, <<>>)
    /\ geo = NoGeo
    /\ api = NoApi

DashOverall ==
    /\ last.op = "init"
    /\ app' = updateDashboardOverall(Begin(app))
    /\ last' = Last("updateDashboardOverall", TRUE, 0, <<>>)
    /\ UNCHANGED <<store, nextId, loadReq, saveResp, delResp, routeReqs, now, geo, api>>

DashRouteOnly ==
    /\ last.op = "init"
    /\ app.routeActive
    /\ app' = updateDashboardRouteOnly(Begin(app))
    /\ last' = Last("updateDashboardRouteOnly", TRUE, 0, <<>>)
    /\ UNCHANGED <<store, nextId, loadReq, saveResp, delResp, routeReqs, now, geo, api>>

NextDash == DashOverall \/ DashRouteOnly

SpecDash == InitDash /\ [][NextDash]_vars

(***************************************************************************)
(* Properties.                                                             *)
(***************************************************************************)
\* the minimum of the distances to all segments of a polyline, none left out
FullMinDistance(p, path) ==
    LET ds == {distPointToSegmentMeters(p, path[i], path[i + 1]) : i \in 1..(Len(path) - 1)}
    IN  IF ds = {} THEN Infinity ELSE CHOOSE d \in ds : \A e \in ds : d <= e

\* C3: for every polyline, buffer and position, the value minDistanceToPolylineMeters
\* returns with its early exit is <= the buffer exactly when the minimum over all
\* segments is, and a returned value above the buffer is that minimum.
C3_EarlyExitKeepsVerdict ==
    geo.done =>
        LET full == FullMinDistance(geo.p, geo.path)
        IN  /\ (geo.result <= geo.buffer) <=> (full <= geo.buffer)
            /\ geo.result > geo.buffer => geo.result = full

\* the early exit returned at a segment that is not the nearest one
C3_Witness ==
    /\ geo.done
    /\ geo.result <= geo.buffer
    /\ FullMinDistance(geo.p, geo.path) < geo.result

(***************************************************************************)
(* Reference definitions of the properties of the application.             *)
(***************************************************************************)
\* the reviews of a list within the buffer of a polyline, by the full minimum
OnRouteReviews(list, path) ==
    LET Within(r) == FullMinDistance(Point(r.lat, r.lng), path) <= routeBufferMeters
    IN  SelectSeq(list, Within)

\* the four tiles for an active subset: blank when it is empty
Aggregates(list) ==
    IF list = <<>>
    THEN [totalReviews |-> Blank, avgSafety |-> Blank, avgInfra |-> Blank,
          recentReviews |-> Blank]
    ELSE [totalReviews |-> Shown(Len(list)),
          avgSafety |-> Shown(RoundDiv(10 * SumSafety(list), Len(list))),
          avgInfra |-> Shown(RoundDiv(10 * SumInfra(list), Len(list))),
          recentReviews |-> Shown(Cardinality({i \in 1..Len(list) :
                                      list[i].timestamp > now - WeekDays}))]

\* C1: exactly one dashboard mode is active; the mode is RouteOnly or Empty iff a
\* route is set, Empty iff a route is set and routeFiltered is empty, and Overall
\* whenever no route is set.
C1_ModeInvariant ==
    /\ app.mode \in {"Overall", "RouteOnly", "Empty"}
    /\ (app.mode \in {"RouteOnly", "Empty"}) <=> app.routeActive
    /\ (app.mode = "Empty") <=> (app.routeActive /\ app.routeFiltered = <<>>)
    /\ ~app.routeActive => app.mode = "Overall"

\* C2: whenever a route is active, routeFiltered is exactly the reviews of the
\* current review list within routeBufferMeters of the current routePath.
C2_FilterNeverStale ==
    app.routeActive => app.routeFiltered = OnRouteReviews(app.reviews, app.routePath)

\* C4: after a route answer with status OK, routePath is the answer's path, the
\* route is active, routeFiltered is the on-route part of the current reviews
\* (computed by one run of the filter), and the dashboard is in RouteOnly with the
\* aggregates of that set if it is non-empty and in Empty if it is empty.
C4_RouteOkEntersRouteMode ==
    (last.op = "routeAnswer" /\ last.ok) =>
        /\ app.routePath = last.path
        /\ app.routeActive
        /\ app.filterRuns = 1
        /\ app.routeFiltered = OnRouteReviews(app.reviews, last.path)
        /\ app.mode = IF app.routeFiltered # <<>> THEN "RouteOnly" ELSE "Empty"
        /\ app.stats = Aggregates(app.routeFiltered)

\* an OK answer with a two-segment path put the dashboard in RouteOnly
C4_Witness ==
    /\ last.op = "routeAnswer" /\ last.ok
    /\ last.path = PathB
    /\ app.mode = "RouteOnly"
    /\ Len(app.routeFiltered) = 2

\* C5: after clearRoute the polyline is discarded, the route is inactive,
\* routeFiltered is empty, no highlight overlay is left, and the dashboard is in
\* Overall mode with the aggregates of the full review list.
C5_ClearRouteResets ==
    last.op = "clearRoute" =>
        /\ app.routePath = <<>>
        /\ ~app.routeActive
        /\ app.routeFiltered = <<>>
        /\ app.routeOverlays = <<>>
        /\ app.mode = "Overall"
        /\ app.stats = Aggregates(app.reviews)

\* clearRoute ran with two reviews in the list
C5_Witness ==
    /\ last.op = "clearRoute"
    /\ Len(app.reviews) = 2
    /\ app.stats.totalReviews = Shown(2)

\* the subset that feeds the dashboard: the on-route reviews while a route is
\* active, all reviews otherwise
ActiveSubset(list, active, path) ==
    IF active THEN OnRouteReviews(list, path) ELSE list

\* C6: a successful deleteReview removes exactly the review of the deleted id
\* from the local list, and the dashboard then shows the aggregates of the
\* remaining subset of the current mode: all reviews in Overall, the re-filtered
\* on-route reviews while a route is active (Empty when there is none).
C6_DeleteReflected ==
    [][(Cardinality(delResp') < Cardinality(delResp) /\ last'.ok) =>
         LET Keep(r) == r.id # last'.id
             subset == ActiveSubset(app'.reviews, app.routeActive, app.routePath)
         IN  /\ app'.reviews = SelectSeq(app.reviews, Keep)
             /\ app'.stats = Aggregates(subset)
             /\ app'.mode = IF ~app.routeActive THEN "Overall"
                            ELSE IF subset = <<>> THEN "Empty" ELSE "RouteOnly"]_vars

\* C7: a successful creation while a route with a polyline is active runs the
\* filter once and writes the dashboard once, both on the changed review list and
\* the same polyline; the new review is on-route iff it is within the buffer, and
\* the mode is RouteOnly or Empty as routeFiltered is non-empty or empty.
C7_CreateRefiltersOnce ==
    (last.op = "saveReview" /\ last.ok /\ app.routeActive /\ Len(app.routePath) >= 1) =>
        /\ app.filterRuns = 1
        /\ app.dashWrites = 1
        /\ Head(app.reviews).id = last.id
        /\ app.routeFiltered = OnRouteReviews(app.reviews, app.routePath)
        /\ (Head(app.reviews) \in Range(app.routeFiltered))
              <=> (FullMinDistance(Point(Head(app.reviews).lat, Head(app.reviews).lng),
                                   app.routePath) <= routeBufferMeters)
        /\ app.stats = Aggregates(app.routeFiltered)
        /\ app.mode = IF app.routeFiltered = <<>> THEN "Empty" ELSE "RouteOnly"

\* the review just created is the first on-route one: Empty became RouteOnly
C7_Witness ==
    /\ last.op = "saveReview" /\ last.ok
    /\ app.routeActive /\ Len(app.routePath) >= 2
    /\ Len(app.reviews) = 2
    /\ app.routeFiltered = <<Head(app.reviews)>>
    /\ app.mode = "RouteOnly"

\* C8: applyFilters and resetFilters leave the review list, routePath, routeActive
\* and the dashboard mode as they were, and the tiles then show the aggregates of
\* the full subset of the mode (all reviews, or all on-route reviews).
C8_FiltersOnlyRedraw ==
    [][(last'.op \in {"applyFilters", "resetFilters"}) =>
         /\ app'.reviews = app.reviews
         /\ app'.routePath = app.routePath
         /\ app'.routeActive = app.routeActive
         /\ app'.mode = app.mode
         /\ app'.stats = Aggregates(ActiveSubset(app.reviews, app.routeActive,
                                                 app.routePath))]_vars

\* C9: a run of the filter on a polyline of fewer than 2 points returns 0 and
\* leaves routeFiltered empty, whatever the review list, and shows no error.
C9_ShortPathNothingOnRoute ==
    (app.countResult # Null /\ Len(app.routePath) < 2) =>
        /\ app.countResult = Shown(0)
        /\ app.routeFiltered = <<>>
        /\ app.notice # "error"

\* the filter ran on a one-point polyline with a review in the list that was
\* on-route before
C9_Witness ==
    /\ app.countResult = Shown(0)
    /\ Len(app.routePath) = 1
    /\ app.reviews # <<>>
    /\ app.routeOverlays # <<>>

\* C10: after every run of the filter the highlight overlays are exactly one per
\* review of the on-route set just computed.
C10_OverlaysMatchFiltered ==
    app.countResult # Null => app.routeOverlays = Halos(app.routeFiltered)

\* the four tiles of the dashboard
Tiles == {"totalReviews", "avgSafety", "avgInfra", "recentReviews"}

Kept(a) == [reviews |-> a.reviews, reviewMarkers |-> a.reviewMarkers,
            routePath |-> a.routePath, routeActive |-> a.routeActive,
            routeFiltered |-> a.routeFiltered, routeOverlays |-> a.routeOverlays,
            badge |-> a.badge, stats |-> a.stats, mode |-> a.mode]

\* C14: when a create or a delete fails (the request fails, or the answer is not
\* a success / not 204), an error notification is shown and the review list, the
\* route, routeFiltered and the dashboard (tiles and mode) stay as they were.
C14_FailedWriteChangesNothing ==
    [][((Cardinality(saveResp') < Cardinality(saveResp)
            \/ Cardinality(delResp') < Cardinality(delResp)) /\ ~last'.ok) =>
         /\ app'.notice = "error"
         /\ Kept(app') = Kept(app)
         /\ app'.dashWrites = 0 /\ app'.filterRuns = 0]_vars

\* a delete failed while the dashboard showed the reviews of a route
C14_Witness ==
    /\ last.op = "deleteReview" /\ ~last.ok
    /\ app.notice = "error"
    /\ app.mode = "RouteOnly"
    /\ last.id \in {r.id : r \in Range(app.routeFiltered)}

\* C15: a route answer whose status is not OK is reported with that status and
\* changes nothing else: routePath, routeActive, routeFiltered, the overlays, the
\* badge and the dashboard stay as they were.
C15_RouteFailureChangesNothing ==
    [][(routeReqs' < routeReqs /\ ~last'.ok) =>
         /\ app'.notice = "error"
         /\ last'.status # "OK" /\ app'.noticeText = <<last'.status>>
         /\ Kept(app') = Kept(app)
         /\ app'.dashWrites = 0 /\ app'.filterRuns = 0]_vars

\* a search failed while an earlier route was shown with its on-route reviews
C15_Witness ==
    /\ last.op = "routeAnswer" /\ ~last.ok
    /\ app.noticeText = <<"NOT_FOUND">>
    /\ app.routeActive /\ app.routePath = PathB
    /\ app.mode = "RouteOnly" /\ app.routeOverlays # <<>>

\* C20: once the initial load was answered and applied and no create or delete
\* is in flight, the local review list holds every review of the store once:
\* no id twice, no created review missing, no deleted review present.
C20_LocalListMatchesStore ==
    (loadReq.phase = "applied" /\ loadReq.ok /\ saveResp = {} /\ delResp = {}) =>
        /\ Range(app.reviews) = store
        /\ Len(app.reviews) = Cardinality(store)

\* the list a dashboard method has just aggregated
Written ==
    IF last.op = "updateDashboardOverall" THEN app.reviews ELSE app.routeFiltered

Abs(x) == IF x < 0 THEN 0 - x ELSE x

\* v tenths is a value with one decimal nearest to sum / n
NearestTenth(v, sum, n) == 2 * Abs(n * v - 10 * sum) <= n

\* the pairs (safetyRating, infrastructureRating) of a list
Ratings(list) ==
    [i \in 1..Len(list) |-> <<list[i].safetyRating, list[i].infrastructureRating>>]

\* C11: when updateDashboardOverall (S = all reviews) or updateDashboardRouteOnly
\* (S = the on-route reviews) writes the tiles for a non-empty S, the count is |S|
\* and each average is the mean of its rating over S rounded to one decimal;
\* ratings (4,2),(2,4) give 3.0, 3.0 and 2.
C11_AggregatesOfSubset ==
    (last.op # "init" /\ Written # <<>>) =>
        /\ app.stats.totalReviews = Shown(Len(Written))
        /\ Len(app.stats.avgSafety) = 1 /\ Len(app.stats.avgInfra) = 1
        /\ NearestTenth(app.stats.avgSafety[1], SumSafety(Written), Len(Written))
        /\ NearestTenth(app.stats.avgInfra[1], SumInfra(Written), Len(Written))
        /\ Ratings(Written) = <<(<<4, 2>>), (<<2, 4>>)>> =>
              /\ app.stats.avgSafety = Shown(30) /\ app.stats.avgInfra = Shown(30)
              /\ app.stats.totalReviews = Shown(2)

\* updateDashboardRouteOnly wrote the tiles for three on-route reviews whose mean
\* safety rating has more than one decimal
C11_Witness ==
    /\ last.op = "updateDashboardRouteOnly"
    /\ Len(app.routeFiltered) = 3
    /\ SumSafety(app.routeFiltered) = 11
    /\ app.stats.avgSafety = Shown(37)
    /\ app.mode = "RouteOnly"

\* C13: the recent count written for a non-empty S is the number of reviews of S
\* whose timestamp lies within the 7 days before the evaluation time, in Overall
\* and in RouteOnly; it is never greater than the count.
C13_RecentWithinLastWeek ==
    (last.op # "init" /\ Written # <<>>) =>
        /\ app.stats.recentReviews =
              Shown(Cardinality({i \in 1..Len(Written) :
                        /\ Written[i].timestamp > now - WeekDays
                        /\ Written[i].timestamp <= now}))
        /\ app.stats.recentReviews[1] <= app.stats.totalReviews[1]

\* C16: a POST /reviews that creates a review attempts one notification, a
\* rejected (400) or failed (500) one attempts none, and a valid request whose
\* insert succeeds is answered 201 with the created review whatever becomes of
\* the notification (delivered, rejected, thrown synchronously, never completing).
C16_NotifyOnceNeverSurfaced ==
    [][(api'.op = "POST" /\ api' # api) =>
         /\ api'.status \in {201, 400, 500}
         /\ (ValidBody(api'.body) /\ api'.dbOk) =>
               /\ api'.status = 201
               /\ api'.saved # Null /\ api'.saved[1] \in store'
         /\ api'.alerts = api.alerts + (IF api'.status = 201 THEN 1 ELSE 0)
         /\ (api'.outcome # "none") <=> (api'.status = 201)]_vars

\* a review was created and answered 201 although the notification threw
C16_Witness ==
    /\ api.op = "POST" /\ api.status = 201
    /\ api.outcome = "threw"
    /\ api.alerts = 2

\* the fields of a payload that the typeof test looks at
CheckedNumbers == {"lat", "lng", "safetyRating", "infrastructureRating"}

\* C17: POST /reviews answers 400 and stores nothing when lat, lng, safetyRating
\* or infrastructureRating is not a number or description is not a string; every
\* other payload whose insert succeeds is answered 201 with the stored review,
\* which carries a fresh identifier and the submitted values (no address when
\* none or an empty one was sent, the server's time when no timestamp was sent).
C17_PostValidates ==
    [][(api'.op = "POST" /\ api' # api) =>
         LET body == api'.body
             wrong == \/ \E f \in CheckedNumbers : body[f].t # "number"
                      \/ body.description.t \notin {"string", "date"}
         IN  /\ wrong => api'.status = 400 /\ store' = store /\ nextId' = nextId
             /\ (~wrong /\ api'.dbOk) =>
                   /\ api'.status = 201 /\ api'.saved # Null
                   /\ store' = store \cup {api'.saved[1]}
                   /\ \A r \in store : r.id # api'.saved[1].id
                   /\ api'.saved[1].id \notin api.gone
                   /\ \A f \in CheckedNumbers : api'.saved[1][f] = body[f].n
                   /\ api'.saved[1].description = body.description.s
                   /\ api'.saved[1].address =
                         (IF body.address.t = "string" /\ body.address.s # ""
                          THEN <<body.address.s>> ELSE Null)
                   /\ api'.saved[1].timestamp =
                         (IF body.timestamp.t = "date" THEN body.timestamp.n ELSE now)]_vars

\* a payload without a description was answered 400 while the store held a review
C17_Witness ==
    /\ api.op = "POST" /\ api.status = 400
    /\ api.body.description = Undef
    /\ api.body.lat = Num(5)
    /\ store # {} /\ store = api.before

\* C18: DELETE /reviews/:id, the database answering, removes exactly the review
\* of that id and answers 204 when it exists, and answers 404 and leaves the
\* store as it is when it does not; a second delete of an id answers 404.
C18_DeleteByIdentifier ==
    [][(api'.op = "DELETE" /\ api' # api /\ api'.dbOk) =>
         /\ IF \E r \in store : r.id = api'.id
            THEN /\ api'.status = 204
                 /\ store' = {r \in store : r.id # api'.id}
                 /\ Cardinality(store') = Cardinality(store) - 1
            ELSE api'.status = 404 /\ store' = store
         /\ api'.id \in api.gone => api'.status = 404]_vars

\* an id was deleted a second time, with another review in the store
C18_Witness ==
    /\ api.op = "DELETE" /\ api.status = 404
    /\ api.id \in api.gone
    /\ store # {}

\* C19: every review the store holds has a safetyRating and an
\* infrastructureRating in 1..5 and a description that is not empty.
C19_StoredReviewsWellFormed ==
    \A r \in store :
        /\ r.safetyRating \in 1..5
        /\ r.infrastructureRating \in 1..5
        /\ r.description # ""

\* C21: from clearRoute until findRoute is invoked again no route is set and the
\* dashboard is in Overall mode; an answer to a search sent before the clear
\* does not set the route again.
C21_ClearedStaysCleared ==
    [][app.routeCleared =>
         /\ ~app'.routeActive
         /\ app'.routePath = <<>>
         /\ app'.mode = "Overall"]_vars

\* C22: the number of the route badge is the size of routeFiltered, and 0 when no
\* route is active.
C22_BadgeMatchesFiltered ==
    /\ app.badge = Len(app.routeFiltered)
    /\ ~app.routeActive => app.badge = 0

\* C23: while no route is active routePath and routeFiltered are empty and there
\* is no highlight overlay; routeFiltered is non-empty only while a route of at
\* least 2 points is active.
C23_NoRouteNothingCached ==
    /\ ~app.routeActive =>
          /\ app.routePath = <<>>
          /\ app.routeFiltered = <<>>
          /\ app.routeOverlays = <<>>
    /\ app.routeFiltered # <<>> => (app.routeActive /\ Len(app.routePath) >= 2)

\* a review was created after the route had been cleared
C23_Witness ==
    /\ app.routeCleared /\ ~app.routeActive
    /\ last.op = "saveReview" /\ last.ok
    /\ Len(app.reviews) = 2
    /\ app.routeFiltered = <<>> /\ app.routeOverlays = <<>>

\* the point p and the end w of a segment in the plane the segment from v is
\* projected to: metres east and north of v
Projected(p, v, w) ==
    LET lat0 == toRad(v.lat + w.lat)
    IN  [px |-> RoundDiv((p.lng - v.lng) * mPerDegLng(lat0), TicksPerDeg),
         py |-> RoundDiv((p.lat - v.lat) * mPerDegLat(lat0), TicksPerDeg),
         vx |-> RoundDiv((w.lng - v.lng) * mPerDegLng(lat0), TicksPerDeg),
         vy |-> RoundDiv((w.lat - v.lat) * mPerDegLat(lat0), TicksPerDeg)]

\* r is the length of (x, y) in whole metres, rounded up
IsLength(r, x, y) ==
    /\ r >= 0 /\ r <= SqrtLimit
    /\ r * r >= x * x + y * y
    /\ r = 0 \/ (r - 1) * (r - 1) < x * x + y * y

\* C24: for a segment with V = W, distPointToSegmentMeters returns the
\* straight-line distance from P to V in the projected plane.
C24_DegenerateSegment ==
    (geo.segDone /\ geo.path[1] = geo.path[2]) =>
        LET q == Projected(geo.p, geo.path[1], geo.path[1])
        IN  IsLength(geo.segResult, q.px, q.py)

\* the distance to a segment of length 0 from a point that is not on it
C24_Witness ==
    /\ geo.segDone
    /\ geo.path[1] = geo.path[2]
    /\ geo.p.lat # geo.path[1].lat /\ geo.p.lng # geo.path[1].lng
    /\ geo.segResult > 0

\* p lies on the line through v and w; p lies on the segment from v to w
OnLine(p, v, w) ==
    (p.lng - v.lng) * (w.lat - v.lat) = (p.lat - v.lat) * (w.lng - v.lng)
OnSegment(p, v, w) ==
    IF v = w THEN p = v
    ELSE /\ OnLine(p, v, w)
         /\ (p.lng - v.lng) * (w.lng - v.lng) + (p.lat - v.lat) * (w.lat - v.lat) >= 0
         /\ (p.lng - w.lng) * (v.lng - w.lng) + (p.lat - w.lat) * (v.lat - w.lat) >= 0

\* what the fixed-point arithmetic resolves on a segment: one step of t, and a metre
Resolution(v, w) ==
    LET q == Projected(v, v, w)
    IN  Sqrt(q.vx * q.vx + q.vy * q.vy) \div TScale + 2

\* C25: the distance from P to the segment V, W is not negative, it is 0 (to the
\* resolution of the arithmetic) iff P lies on the segment, and t is clamped to
\* [0,1]: a point whose projection falls before V or after W gets its distance
\* to that endpoint.
C25_DistanceToSegment ==
    geo.segDone =>
        LET v == geo.path[1]
            w == geo.path[2]
            q == Projected(geo.p, v, w)
            num == q.px * q.vx + q.py * q.vy
            segLen2 == q.vx * q.vx + q.vy * q.vy
        IN  /\ geo.segResult >= 0
            /\ OnSegment(geo.p, v, w) <=> (geo.segResult <= Resolution(v, w))
            /\ geo.p \in {v, w} => geo.segResult = 0
            /\ num <= 0 => IsLength(geo.segResult, q.px, q.py)
            /\ num >= segLen2 => IsLength(geo.segResult, q.px - q.vx, q.py - q.vy)

\* a point on the line of the segment and beyond its end W: the distance is
\* that to W and not 0
C25_Witness ==
    /\ geo.segDone
    /\ geo.path[1] # geo.path[2]
    /\ OnLine(geo.p, geo.path[1], geo.path[2])
    /\ ~OnSegment(geo.p, geo.path[1], geo.path[2])
    /\ (geo.p.lng - geo.path[2].lng) * (geo.path[1].lng - geo.path[2].lng) < 0
    /\ geo.segResult > Resolution(geo.path[1], geo.path[2])

\* C26: with the route [(0,0),(0,0.01)] and the buffer of 1000 m, the filter puts
\* a review at (0.0005, 0.005) on-route, its distance being about 55 m, and a
\* review at (0.02, 0.005) off-route, its distance being about 2.2 km.
C26_ScenarioClassification ==
    (app.countResult # Null /\ app.routePath = PathA) =>
        \A i \in 1..Len(app.reviews) :
            LET r == app.reviews[i]
                pos == Point(r.lat, r.lng)
                d == minDistanceToPolylineMeters(pos, app.routePath, routeBufferMeters)
                on == r \in Range(app.routeFiltered)
            IN  /\ pos = NearPt => (on /\ d \in 50..60)
                /\ pos = FarPt => (~on /\ d \in 2150..2250)

\* the filter ran on that route with a review at each of the two places
C26_Witness ==
    /\ app.countResult = Shown(1)
    /\ app.routePath = PathA
    /\ Len(app.reviews) = 2
    /\ Point(app.routeFiltered[1].lat, app.routeFiltered[1].lng) = NearPt
    /\ \E r \in Range(app.reviews) : Point(r.lat, r.lng) = FarPt

====
